---- MODULE Spec2Model ----
(***************************************************************************)
(* Model of the two Salesforce diagnostic scripts:                         *)
(*   test_sf_connection.py  - the connection bootstrapper                  *)
(*   explore_sf_fields.py   - the metadata and sample-data explorer        *)
(* Python strings that the scripts inspect character by character (the     *)
(* domain) are sequences of one-character strings; messages that are only  *)
(* built by concatenation are TLA+ strings.                                *)
(***************************************************************************)
EXTENDS Integers, Sequences, FiniteSets, TLC

VARIABLES
    raw,        \* the domain literal the run starts from
    bpc,        \* bootstrapper: position in the script
    domain,     \* bootstrapper: the variable `domain`
    bPrinted,   \* bootstrapper: values printed by "Using domain: ..."
    bAuth,      \* bootstrapper: keyword arguments of each Salesforce(...) call
    bInstance,  \* bootstrapper: sf.sf_instance of the session
    bUser,      \* bootstrapper: user_info['records']
    bLog,       \* bootstrapper: events in the order they happened (a failure is
                \* followed by the message of its exception)
    bOut,       \* bootstrapper: JSON documents printed
    bEscaped,   \* bootstrapper: exception that left the script unhandled
    epc,        \* explorer: position in the script
    eAuth,      \* explorer: keyword arguments of each Salesforce(...) call
    eLog,       \* explorer: events in the order they happened
    eErr,       \* explorer: "Error: ..." lines printed
    eEscaped,   \* explorer: exception that left the script unhandled
    dbJobs,     \* explorer: number of job rows the server held at the job query
    jobs,       \* explorer: jobs['records'] (job ids)
    jobIdx,     \* explorer: index of the job the loop is at
    table,      \* explorer: shift rows the server held at the last shift query
    shifts,     \* explorer: shifts['records'] of the last shift query
    lines,      \* explorer: shift lines printed for the current job
    nPrintedJobs,   \* explorer: job blocks printed in the run
    nPrintedShifts  \* explorer: shift lines printed in the run

bvars == <<bpc, domain, bPrinted, bAuth, bInstance, bUser, bLog, bOut, bEscaped>>
evars == <<epc, eAuth, eLog, eErr, eEscaped, dbJobs, jobs, jobIdx, table, shifts,
           lines, nPrintedJobs, nPrintedShifts>>
vars == <<raw, bvars, evars>>

(***************************************************************************)
(* Python string operations on character sequences                         *)
(***************************************************************************)

\* s[i:i+len(sub)] == sub, i counted from 1
MatchAt(s, sub, i) ==
    /\ i + Len(sub) - 1 <= Len(s)
    /\ \A k \in 1 .. Len(sub) : s[i + k - 1] = sub[k]

\* sub in s
Contains(s, sub) == \E i \in 1 .. (Len(s) - Len(sub) + 1) : MatchAt(s, sub, i)

\* s[n:] with n counted from 0
Drop(s, n) == SubSeq(s, n + 1, Len(s))

\* s.replace(old, new): non-overlapping occurrences, left to right
RECURSIVE Replace(_, _, _)
Replace(s, old, new) ==
    IF s = <<>> \/ old = <<>> THEN s
    ELSE IF MatchAt(s, old, 1) THEN new \o Replace(Drop(s, Len(old)), old, new)
    ELSE <<Head(s)>> \o Replace(Tail(s), old, new)

\* s.rstrip(c)
RECURSIVE RStrip(_, _)
RStrip(s, c) ==
    IF s # <<>> /\ s[Len(s)] = c THEN RStrip(SubSeq(s, 1, Len(s) - 1), c) ELSE s

\* s.find(c), counted from 1; 0 when absent
Find(s, c) ==
    IF \E i \in 1 .. Len(s) : s[i] = c
    THEN CHOOSE i \in 1 .. Len(s) : s[i] = c /\ \A k \in 1 .. (i - 1) : s[k] # c
    ELSE 0

Letters ==
    {"a", "b", "c", "d", "e", "f", "g", "h", "i", "j", "k", "l", "m", "n", "o", "p",
     "q", "r", "s", "t", "u", "v", "w", "x", "y", "z",
     "A", "B", "C", "D", "E", "F", "G", "H", "I", "J", "K", "L", "M", "N", "O", "P",
     "Q", "R", "S", "T", "U", "V", "W", "X", "Y", "Z"}

SchemeChars == Letters \cup {"0", "1", "2", "3", "4", "5", "6", "7", "8", "9", "+", "-", "."}

\* urlsplit: the url has a scheme when the text before the first ':' starts with a
\* letter and holds scheme characters only
SchemeEnd(url) ==
    LET i == Find(url, ":")
    IN IF i > 1 /\ url[1] \in Letters /\ \A k \in 1 .. (i - 1) : url[k] \in SchemeChars
       THEN i ELSE 0

HasScheme(url) == SchemeEnd(url) > 0

\* urlparse(url).netloc: after the scheme, the text between a leading '//' and
\* the first of '/', '?', '#'
UrlNetloc(url) ==
    LET rest == Drop(url, SchemeEnd(url))
        body == Drop(rest, 2)
        stops == {i \in 1 .. Len(body) : body[i] \in {"/", "?", "#"}}
        cut == IF stops = {} THEN Len(body) + 1
               ELSE CHOOSE i \in stops : \A k \in stops : i <= k
    IN IF MatchAt(rest, <<"/", "/">>, 1) THEN SubSeq(body, 1, cut - 1) ELSE <<>>

(***************************************************************************)
(* String literals of the scripts                                          *)
(***************************************************************************)

HttpWord == <<"h", "t", "t", "p">>
HttpsPrefix == <<"h", "t", "t", "p", "s", ":", "/", "/">>
HttpPrefix == <<"h", "t", "t", "p", ":", "/", "/">>
LightningSuffix ==
    <<"l", "i", "g", "h", "t", "n", "i", "n", "g", ".", "f", "o", "r", "c", "e", ".",
      "c", "o", "m">>
LightningHost == <<"w", "m", "m", ".">> \o LightningSuffix
EmbeddedDomain == HttpsPrefix \o LightningHost \o <<"/">>

(***************************************************************************)
(* Inputs                                                                  *)
(***************************************************************************)

RawSchemes ==
    {<<>>, HttpsPrefix, HttpPrefix,
     <<"H", "T", "T", "P", "S", ":", "/", "/">>,
     <<"f", "t", "p", ":", "/", "/">>}

RawHosts ==
    {LightningHost,
     <<"l", "o", "g", "i", "n">>,
     <<"t", "e", "s", "t">>,
     <<"w", "m", "m", ".", "m", "y", ".", "s", "f", ".", "c", "o", "m">>,
     <<"h", "t", "t", "p", "b", "i", "n", ".", "o", "r", "g">>}

RawTails == {<<>>, <<"/">>, <<"/", "/">>, <<"/", "a">>}

RawDomains == {s \o h \o t : s \in RawSchemes, h \in RawHosts, t \in RawTails}

\* str(e) of the exceptions the client library raises from a call (exceptions
\* other than ImportError), and of the ImportError of a failed import
ErrMsgs == {"INVALID_LOGIN", "timed out"}
ImportMsgs == {"No module named 'simple_salesforce'"}
Instances == {"wmm.my.salesforce.com", "login.salesforce.com"}

(***************************************************************************)
(* Bounds of the model and constants of the scripts                        *)
(***************************************************************************)

\* rows matching the username that the server may hold
MaxUsers == 2
\* job rows the server may hold
MaxJobsDB == 6
\* distinct start timestamps of one job's shifts
MaxStart == 4

\* LIMIT 1 of the verification query
UserLimit == 1
\* LIMIT 5 of the job query
JobLimit == 5
\* LIMIT 3 of the shift query
ShiftLimit == 3
\* shift.get('GW_Volunteers__Total_Volunteers__c', 1)
DefaultTotal == 1
\* shift.get('GW_Volunteers__Number_of_Volunteers_Still_Needed__c', 0)
DefaultNeeded == 0

(***************************************************************************)
(* Bootstrapper: test_sf_connection.py                                     *)
(***************************************************************************)

\* lines 29-31: the clean-up of `domain`
Normalize(d) ==
    LET parsed == IF Contains(d, HttpWord) THEN UrlNetloc(d) ELSE d
    IN RStrip(Replace(Replace(parsed, HttpsPrefix, <<>>), HttpPrefix, <<>>), "/")

AuthCallDomainOnly(host) == [domain |-> host]

\* lines 35-50: the keyword arguments that select the authentication mode
\* (the three credential arguments are the same in both branches)
AuthCall(host) ==
    IF Contains(host, LightningSuffix)
    THEN [instance_url |-> HttpsPrefix \o host]
    ELSE [domain |-> host]

\* line 53: ... FROM User WHERE Username = '{username}' LIMIT 1, run on the
\* rows of the server that match the username
UserQuery(users) == SubSeq(users, 1, IF Len(users) < UserLimit THEN Len(users) ELSE UserLimit)

SuccessResultNoOrg(records, instance) ==
    [success |-> TRUE,
     message |-> "Successfully connected to Salesforce",
     userInfo |-> IF records # <<>> THEN <<records[1]>> ELSE <<>>]

\* lines 55-60: the result of a good run; userInfo is <<record>>, or <<>> for None
SuccessResult(records, instance) ==
    [success |-> TRUE,
     message |-> "Successfully connected to Salesforce",
     userInfo |-> IF records # <<>> THEN <<records[1]>> ELSE <<>>,
     organizationId |-> instance]

NotInstalledResultAsSuccess(e) ==
    [success |-> TRUE, message |-> "simple-salesforce not installed: " \o e]

\* lines 64-68
NotInstalledResult(e) ==
    [success |-> FALSE, message |-> "simple-salesforce not installed: " \o e]

ConnectionFailedResultNoDetail(e) ==
    [success |-> FALSE, message |-> "Connection failed: "]

\* lines 69-73
ConnectionFailedResult(e) ==
    [success |-> FALSE, message |-> "Connection failed: " \o e]

\* lines 19-26: the import inside the try block, then the literals
BImport ==
    /\ bpc = "start"
    /\ \/ /\ bpc' = "imported"
          /\ domain' = raw
          /\ bLog' = Append(bLog, "import_ok")
          /\ UNCHANGED bOut
       \/ \E e \in ImportMsgs :
            /\ bpc' = "done"
            /\ bLog' = bLog \o <<"import_failed", e, "emit_failure">>
            /\ bOut' = Append(bOut, NotInstalledResult(e))
            /\ UNCHANGED domain
    /\ UNCHANGED <<raw, bPrinted, bAuth, bInstance, bUser, bEscaped, evars>>

\* lines 28-33
BNormalize ==
    /\ bpc = "imported"
    /\ domain' = Normalize(domain)
    /\ bPrinted' = Append(bPrinted, domain')
    /\ bpc' = "normalized"
    /\ UNCHANGED <<raw, bAuth, bInstance, bUser, bLog, bOut, bEscaped, evars>>

\* lines 35-50: one Salesforce(...) call; it returns a session or raises
BAuth ==
    /\ bpc = "normalized"
    /\ bAuth' = Append(bAuth, AuthCall(domain))
    /\ \/ \E i \in Instances :
            /\ bInstance' = i
            /\ bpc' = "authed"
            /\ bLog' = bLog \o <<"auth_call", "auth_ok">>
            /\ UNCHANGED bOut
       \/ \E e \in ErrMsgs :
            /\ bpc' = "done"
            /\ bLog' = bLog \o <<"auth_call", "auth_failed", e, "emit_failure">>
            /\ bOut' = Append(bOut, ConnectionFailedResult(e))
            /\ UNCHANGED bInstance
    /\ UNCHANGED <<raw, domain, bPrinted, bUser, bEscaped, evars>>

\* line 53: the verification query; it returns records or raises
BQuery ==
    /\ bpc = "authed"
    /\ \/ \E n \in 0 .. MaxUsers :
            /\ bUser' = UserQuery([k \in 1 .. n |-> [Id |-> k]])
            /\ bpc' = "queried"
            /\ bLog' = bLog \o <<"query_call", "query_ok">>
            /\ UNCHANGED bOut
       \/ \E e \in ErrMsgs :
            /\ bpc' = "done"
            /\ bLog' = bLog \o <<"query_call", "query_failed", e, "emit_failure">>
            /\ bOut' = Append(bOut, ConnectionFailedResult(e))
            /\ UNCHANGED bUser
    /\ UNCHANGED <<raw, domain, bPrinted, bAuth, bInstance, bEscaped, evars>>

\* lines 55-62
BEmit ==
    /\ bpc = "queried"
    /\ bOut' = Append(bOut, SuccessResult(bUser, bInstance))
    /\ bLog' = Append(bLog, "emit_success")
    /\ bpc' = "done"
    /\ UNCHANGED <<raw, domain, bPrinted, bAuth, bInstance, bUser, bEscaped, evars>>

NextBoot == BImport \/ BNormalize \/ BAuth \/ BQuery \/ BEmit

(***************************************************************************)
(* Explorer: explore_sf_fields.py                                          *)
(***************************************************************************)

\* Field values of a record: None is <<>>, the number n is <<n>>.  A record is
\* a function from field names to values; a field the record does not carry is
\* not in its domain.
None == <<>>
Num(n) == <<n>>

\* record.get(key, default)
Get(rec, key, default) == IF key \in DOMAIN rec THEN rec[key] ELSE default

\* truth value of None or a number
Truthy(v) == v # None /\ v[1] # 0

Take(s, n) == SubSeq(s, 1, IF Len(s) < n THEN Len(s) ELSE n)

ExplorerAuthCallNormalized(d) == [instance_url |-> HttpsPrefix \o Normalize(d)]

\* lines 12-17: instance_url=domain, the literal as it is
ExplorerAuthCall(d) == [instance_url |-> d]

\* lines 44-50: SELECT ... FROM GW_Volunteers__Volunteer_Job__c LIMIT 5, run on
\* a server holding the jobs 1 .. n
JobQuery(n) == Take([i \in 1 .. n |-> i], JobLimit)

\* ORDER BY start DESC: nulls sort first
StartKey(r) == IF r.start = None THEN MaxStart + 1 ELSE r.start[1]

RECURSIVE OrderByStartDesc(_)
OrderByStartDesc(rows) ==
    IF rows = {} THEN <<>>
    ELSE LET m == CHOOSE r \in rows : \A q \in rows : StartKey(q) <= StartKey(r)
         IN <<m>> \o OrderByStartDesc(rows \ {m})

ShiftQueryNoNullFilter(tbl, jobId) ==
    Take(OrderByStartDesc({r \in tbl : r.job = jobId}), ShiftLimit)

\* lines 65-75: WHERE job = '{job_id}' AND start != null ORDER BY start DESC LIMIT 3
ShiftQuery(tbl, jobId) ==
    Take(OrderByStartDesc({r \in tbl : r.job = jobId /\ r.start # None}), ShiftLimit)

\* line 81
TotalSpots(shift) == Get(shift, "total", Num(DefaultTotal))
\* line 82
StillNeeded(shift) == Get(shift, "needed", Num(DefaultNeeded))

\* line 83 raises TypeError when it subtracts with None
FilledRaises(shift) == Truthy(TotalSpots(shift)) /\ StillNeeded(shift) = None

\* line 83: filled = total_spots - still_needed if total_spots else 0
Filled(shift) ==
    IF Truthy(TotalSpots(shift))
    THEN Num(TotalSpots(shift)[1] - StillNeeded(shift)[1])
    ELSE Num(0)

\* lines 78-85: the lines the loop prints: every shift up to the first that raises
FirstRaise(rows) ==
    IF \E i \in 1 .. Len(rows) : FilledRaises(rows[i])
    THEN CHOOSE i \in 1 .. Len(rows) :
            FilledRaises(rows[i]) /\ \A k \in 1 .. (i - 1) : ~FilledRaises(rows[k])
    ELSE 0

ShiftLines(rows) ==
    LET stop == FirstRaise(rows)
        n == IF stop = 0 THEN Len(rows) ELSE stop - 1
    IN [i \in 1 .. n |->
          [shift |-> rows[i], total_spots |-> TotalSpots(rows[i]), filled |-> Filled(rows[i])]]

(***************************************************************************)
(* Shift tables the server may hold when the shift query of a job runs     *)
(***************************************************************************)

\* the counts a capacity or still-needed field may hold
CountSeq == <<0, 3, 10>>

\* a field is absent from the record, or present with None or a count
FieldOpts ==
    <<[present |-> FALSE, v |-> None], [present |-> TRUE, v |-> None]>>
    \o [i \in 1 .. Len(CountSeq) |-> [present |-> TRUE, v |-> Num(CountSeq[i])]]

NumOpts == Len(FieldOpts)
NumPayloads == NumOpts * NumOpts

MkShift(j, s, t, n) ==
    IF t.present /\ n.present THEN [job |-> j, start |-> s, total |-> t.v, needed |-> n.v]
    ELSE IF t.present THEN [job |-> j, start |-> s, total |-> t.v]
    ELSE IF n.present THEN [job |-> j, start |-> s, needed |-> n.v]
    ELSE [job |-> j, start |-> s]

OtherJob(j) == (j % MaxJobsDB) + 1

\* job and start of the rows a table is drawn from: the job's shifts with a null
\* start and with the starts 1 .. MaxStart, and a shift of another job
PoolKeys(j) ==
    <<[job |-> j, start |-> None]>>
    \o [i \in 1 .. MaxStart |-> [job |-> j, start |-> Num(i)]]
    \o <<[job |-> OtherJob(j), start |-> Num(MaxStart)]>>

ShiftTable(j, picked, p) ==
    {MkShift(PoolKeys(j)[i].job, PoolKeys(j)[i].start,
             FieldOpts[((p + i) % NumOpts) + 1],
             FieldOpts[(((p + i) \div NumOpts) % NumOpts) + 1]) : i \in picked}

(***************************************************************************)
(* Explorer actions.  The text of the printed lines is not modelled beyond *)
(* the shift lines' total and filled values and the counts of job blocks   *)
(* and shift lines.                                                        *)
(***************************************************************************)

Event(name, j) == [ev |-> name, job |-> j]

\* lines 87-88: the handler prints one error line and the script ends
EFail(e) ==
    /\ eErr' = Append(eErr, "Error: " \o e)
    /\ epc' = "done"

\* line 2: the import at module level, before the try block
EImport ==
    /\ epc = "start"
    /\ \/ /\ epc' = "imported"
          /\ UNCHANGED eEscaped
       \/ /\ epc' = "crashed"
          /\ eEscaped' = "ImportError"
    /\ UNCHANGED <<raw, bvars, eAuth, eLog, eErr, dbJobs, jobs, jobIdx, table, shifts,
                   lines, nPrintedJobs, nPrintedShifts>>

\* lines 12-19
EAuth ==
    /\ epc = "imported"
    /\ eAuth' = Append(eAuth, ExplorerAuthCall(raw))
    /\ \/ /\ epc' = "connected"
          /\ UNCHANGED eErr
       \/ \E e \in ErrMsgs : EFail(e)
    /\ UNCHANGED <<raw, bvars, eLog, eEscaped, dbJobs, jobs, jobIdx, table, shifts,
                   lines, nPrintedJobs, nPrintedShifts>>

\* lines 21-29: describe() of the job object and the filtered field lines
EDescribeJobs ==
    /\ epc = "connected"
    /\ \/ /\ epc' = "jobs_described"
          /\ UNCHANGED eErr
       \/ \E e \in ErrMsgs : EFail(e)
    /\ eLog' = Append(eLog, Event("describe_jobs", 0))
    /\ UNCHANGED <<raw, bvars, eAuth, eEscaped, dbJobs, jobs, jobIdx, table, shifts,
                   lines, nPrintedJobs, nPrintedShifts>>

\* lines 31-40: describe() of the shift object and the filtered field lines
EDescribeShifts ==
    /\ epc = "jobs_described"
    /\ \/ /\ epc' = "described"
          /\ UNCHANGED eErr
       \/ \E e \in ErrMsgs : EFail(e)
    /\ eLog' = Append(eLog, Event("describe_shifts", 0))
    /\ UNCHANGED <<raw, bvars, eAuth, eEscaped, dbJobs, jobs, jobIdx, table, shifts,
                   lines, nPrintedJobs, nPrintedShifts>>

\* lines 42-54: the job query, the count line, and the entry of the job loop
EJobQuery ==
    /\ epc = "described"
    /\ eLog' = Append(eLog, Event("job_query", 0))
    /\ \/ \E n \in 0 .. MaxJobsDB :
            /\ dbJobs' = n
            /\ jobs' = JobQuery(n)
            /\ jobIdx' = 1
            /\ epc' = IF jobs' = <<>> THEN "done" ELSE "job"
            /\ UNCHANGED eErr
       \/ /\ \E e \in ErrMsgs : EFail(e)
          /\ UNCHANGED <<dbJobs, jobs, jobIdx>>
    /\ UNCHANGED <<raw, bvars, eAuth, eEscaped, table, shifts, lines, nPrintedJobs,
                   nPrintedShifts>>

\* lines 55-77: the job block is printed, then the shift query of the job runs
EShiftQuery ==
    /\ epc = "job"
    /\ nPrintedJobs' = nPrintedJobs + 1
    /\ eLog' = Append(eLog, Event("shift_query", jobs[jobIdx]))
    /\ lines' = <<>>
    /\ \/ \E picked \in SUBSET (1 .. Len(PoolKeys(jobs[jobIdx]))), p \in 0 .. (NumPayloads - 1) :
            /\ table' = ShiftTable(jobs[jobIdx], picked, p)
            /\ shifts' = ShiftQuery(table', jobs[jobIdx])
            /\ epc' = "shifts"
            /\ UNCHANGED eErr
       \/ /\ \E e \in ErrMsgs : EFail(e)
          /\ UNCHANGED <<table, shifts>>
    /\ UNCHANGED <<raw, bvars, eAuth, eEscaped, dbJobs, jobs, jobIdx, nPrintedShifts>>

\* lines 78-85: the shift loop of one job
EPrintShifts ==
    /\ epc = "shifts"
    /\ lines' = ShiftLines(shifts)
    /\ nPrintedShifts' = nPrintedShifts + Len(lines')
    /\ IF FirstRaise(shifts) # 0
       THEN EFail("unsupported operand type(s) for -")
       ELSE epc' = "printed" /\ UNCHANGED eErr
    /\ UNCHANGED <<raw, bvars, eAuth, eLog, eEscaped, dbJobs, jobs, jobIdx, table, shifts,
                   nPrintedJobs>>

\* line 54: the job loop takes the next job, or ends
ENextJob ==
    /\ epc = "printed"
    /\ table' = {}
    /\ shifts' = <<>>
    /\ lines' = <<>>
    /\ IF jobIdx < Len(jobs)
       THEN jobIdx' = jobIdx + 1 /\ epc' = "job"
       ELSE UNCHANGED jobIdx /\ epc' = "done"
    /\ UNCHANGED <<raw, bvars, eAuth, eLog, eErr, eEscaped, dbJobs, jobs, nPrintedJobs,
                   nPrintedShifts>>

NextConnect == EImport \/ EAuth

NextExplorer ==
    EImport \/ EAuth \/ EDescribeJobs \/ EDescribeShifts \/ EJobQuery \/ EShiftQuery
    \/ EPrintShifts \/ ENextJob

(***************************************************************************)
(* Specifications                                                          *)
(***************************************************************************)

InitState ==
    /\ bpc = "start"
    /\ domain = <<>>
    /\ bPrinted = <<>>
    /\ bAuth = <<>>
    /\ bInstance = ""
    /\ bUser = <<>>
    /\ bLog = <<>>
    /\ bOut = <<>>
    /\ bEscaped = "none"
    /\ epc = "start"
    /\ eAuth = <<>>
    /\ eLog = <<>>
    /\ eErr = <<>>
    /\ eEscaped = "none"
    /\ dbJobs = 0
    /\ jobs = <<>>
    /\ jobIdx = 0
    /\ table = {}
    /\ shifts = <<>>
    /\ lines = <<>>
    /\ nPrintedJobs = 0
    /\ nPrintedShifts = 0

\* any domain literal of the input set
Init == raw \in RawDomains /\ InitState

\* the literal the scripts embed
InitEmbedded == raw = EmbeddedDomain /\ InitState

Next == NextBoot \/ NextExplorer

\* both scripts, each run once, on any domain literal
Spec == Init /\ [][Next]_vars

\* the bootstrapper alone, on any domain literal
SpecBoot == Init /\ [][NextBoot]_vars

\* the explorer alone, on the embedded literal
SpecExplorer == InitEmbedded /\ [][NextExplorer]_vars

\* the bootstrapper and the connection phase of the explorer, on the same literal
SpecPair == Init /\ [][NextBoot \/ NextConnect]_vars

(***************************************************************************)
(* Helpers of the properties                                               *)
(***************************************************************************)

InLog(log, x) == \E i \in 1 .. Len(log) : log[i] = x

Before(log, x, i) == \E k \in 1 .. (i - 1) : log[k] = x

\* the message of the exception logged after the failure event x
Raised(log, x) == log[(CHOOSE i \in 1 .. Len(log) : log[i] = x) + 1]

ShiftQueriesFor(j) == Cardinality({i \in 1 .. Len(eLog) : eLog[i] = Event("shift_query", j)})

JobQueries == Cardinality({i \in 1 .. Len(eLog) : eLog[i].ev = "job_query"})

\* the host an authentication call was given
CallHost(call) ==
    IF "domain" \in DOMAIN call THEN call.domain ELSE Drop(call.instance_url, Len(HttpsPrefix))

BootNormalized == bPrinted # <<>>

(***************************************************************************)
(* C1                                                                      *)
(***************************************************************************)

\* C1: for every raw domain string with a URL scheme, the host the bootstrapper
\* prints and hands to authentication is exactly the network location of the
\* URL, with no scheme and no trailing slash left in it.
C1_HostIsNetloc ==
    (BootNormalized /\ HasScheme(raw)) =>
        /\ domain = UrlNetloc(raw)
        /\ bPrinted = <<UrlNetloc(raw)>>
        /\ \A i \in 1 .. Len(bAuth) : CallHost(bAuth[i]) = UrlNetloc(raw)
        /\ ~HasScheme(domain)
        /\ ~Contains(domain, <<":", "/", "/">>)
        /\ (domain = <<>> \/ domain[Len(domain)] # "/")

(***************************************************************************)
(* C2                                                                      *)
(***************************************************************************)

\* the one call of a run is the instance-URL call exactly when the normalized
\* host contains 'lightning.force.com', and the named-domain call otherwise
C2_ModeMatchesHost ==
    \A i \in 1 .. Len(bAuth) :
        IF Contains(domain, LightningSuffix)
        THEN DOMAIN bAuth[i] = {"instance_url"} /\ bAuth[i].instance_url = HttpsPrefix \o domain
        ELSE DOMAIN bAuth[i] = {"domain"} /\ bAuth[i].domain = domain

\* C2 as stated: every run of the bootstrapper makes exactly one authentication
\* call, in the mode the normalized host selects.
C2_EveryRunAuthenticatesOnce ==
    /\ bpc = "done" => Len(bAuth) = 1
    /\ C2_ModeMatchesHost

\* C2 amended: a run that imported the client library makes exactly one
\* authentication call, in the mode the normalized host selects; a run whose
\* import failed makes none.
C2_AuthModeSelection ==
    /\ Len(bAuth) <= 1
    /\ (bpc = "done" /\ InLog(bLog, "import_ok")) => Len(bAuth) = 1
    /\ ~InLog(bLog, "import_ok") => bAuth = <<>>
    /\ C2_ModeMatchesHost

C2_Witness ==
    /\ bpc = "done"
    /\ Len(bAuth) = 1
    /\ "instance_url" \in DOMAIN bAuth[1]
    /\ raw # HttpsPrefix \o domain

(***************************************************************************)
(* C3                                                                      *)
(***************************************************************************)

\* C3: when the import of the client library fails, the run ends with exactly
\* one result, success false and a "not installed" message; no authentication
\* call, no query, no success result, and no exception leaves the script.
C3_ImportFailure ==
    InLog(bLog, "import_failed") =>
        /\ bpc = "done"
        /\ Len(bOut) = 1
        /\ bOut[1].success = FALSE
        /\ bOut[1].message = "simple-salesforce not installed: " \o Raised(bLog, "import_failed")
        /\ bAuth = <<>>
        /\ ~InLog(bLog, "auth_call")
        /\ ~InLog(bLog, "query_call")
        /\ ~InLog(bLog, "emit_success")
        /\ bEscaped = "none"

C3_Witness == InLog(bLog, "import_failed") /\ bOut # <<>>

(***************************************************************************)
(* C4                                                                      *)
(***************************************************************************)

\* C4: for every shift whose total capacity is 0 or absent from the record and
\* whose still-needed count is 0, the filled value printed is 0.
C4_EmptyShiftFilledZero ==
    \A i \in 1 .. Len(lines) :
        LET r == lines[i].shift
        IN (/\ ("total" \notin DOMAIN r \/ r.total = Num(0))
            /\ "needed" \in DOMAIN r
            /\ r.needed = Num(0))
           => lines[i].filled = Num(0)

(***************************************************************************)
(* C5                                                                      *)
(***************************************************************************)

HasCapacity(r) == "total" \in DOMAIN r /\ r.total # None /\ r.total # Num(0)

\* C5: for every shift whose total capacity is present and non-zero, filled is
\* total minus still-needed (0 when the field is absent), and the computation
\* does not raise on such a shift.
C5_NormalFilled ==
    /\ \A i \in 1 .. Len(lines) :
          LET r == lines[i].shift
          IN HasCapacity(r) =>
                lines[i].filled =
                    Num(r.total[1] - (IF "needed" \in DOMAIN r THEN r.needed[1] ELSE 0))
    /\ (epc = "done" /\ Len(lines) < Len(shifts)) => ~HasCapacity(shifts[Len(lines) + 1])

(***************************************************************************)
(* C6                                                                      *)
(***************************************************************************)

\* the rows of the table the shift query of the current job asks for
Matching == {r \in table : r.job = jobs[jobIdx] /\ r.start # None}

\* the bounds of the two-level query: one job query of at most 5 jobs; every
\* shift query after it and for a returned job; its result is the 3 latest
\* shifts of that job with a start, latest first; at most 5 job blocks and
\* 15 shift lines are printed
C6_Bounds ==
    /\ JobQueries <= 1
    /\ Len(jobs) <= JobLimit
    /\ Len(jobs) = (IF dbJobs < JobLimit THEN dbJobs ELSE JobLimit)
    /\ \A i \in 1 .. Len(eLog) :
          eLog[i].ev = "shift_query" =>
              /\ Before(eLog, Event("job_query", 0), i)
              /\ \E k \in 1 .. Len(jobs) : jobs[k] = eLog[i].job
    /\ table = {} => shifts = <<>>
    /\ table # {} =>
          /\ Len(shifts) <= ShiftLimit
          /\ Len(shifts) = (IF Cardinality(Matching) < ShiftLimit
                            THEN Cardinality(Matching) ELSE ShiftLimit)
          /\ \A i \in 1 .. Len(shifts) : shifts[i] \in Matching
          /\ \A i, k \in 1 .. Len(shifts) : i < k => shifts[i].start[1] >= shifts[k].start[1]
          /\ \A r \in Matching :
                (\A i \in 1 .. Len(shifts) : shifts[i] # r) =>
                    \A i \in 1 .. Len(shifts) : r.start[1] <= shifts[i].start[1]
    /\ Len(lines) <= ShiftLimit
    /\ \A i \in 1 .. Len(lines) :
          /\ lines[i].shift = shifts[i]
          /\ lines[i].shift.job = jobs[jobIdx]
          /\ lines[i].shift.start # None
    /\ nPrintedJobs <= JobLimit
    /\ nPrintedShifts <= JobLimit * ShiftLimit

\* C6 as stated: the bounds, and exactly one shift query for each returned job.
C6_OneShiftQueryPerReturnedJob ==
    /\ C6_Bounds
    /\ epc = "done" => \A k \in 1 .. Len(jobs) : ShiftQueriesFor(jobs[k]) = 1

\* C6 amended: the bounds; at most one shift query for each returned job, the
\* jobs taken in the order returned; exactly one for each returned job in a
\* run that ends without an error.
C6_TwoLevelQuery ==
    /\ C6_Bounds
    /\ \A k \in 1 .. Len(jobs) : ShiftQueriesFor(jobs[k]) <= 1
    /\ \A k \in 1 .. Len(jobs) :
          ShiftQueriesFor(jobs[k]) = 1 => \A m \in 1 .. k : ShiftQueriesFor(jobs[m]) = 1
    /\ (epc = "done" /\ eErr = <<>>) => \A k \in 1 .. Len(jobs) : ShiftQueriesFor(jobs[k]) = 1

C6_Witness ==
    /\ epc = "printed"
    /\ dbJobs > JobLimit
    /\ jobIdx = JobLimit
    /\ Cardinality(Matching) > ShiftLimit
    /\ \E r \in table : r.job = jobs[jobIdx] /\ r.start = None
    /\ \E r \in table : r.job # jobs[jobIdx]
    /\ Len(lines) = ShiftLimit
    /\ nPrintedShifts = JobLimit * ShiftLimit

(***************************************************************************)
(* C7                                                                      *)
(***************************************************************************)

\* C7: in both scripts both kinds of error, the failed import and any other
\* exception, are caught and reported, and the process ends normally: no
\* exception leaves either script.
C7_NoExceptionEscapes ==
    /\ bEscaped = "none"
    /\ eEscaped = "none"
    /\ epc # "crashed"
    /\ bpc # "crashed"
    /\ (InLog(bLog, "import_failed") \/ InLog(bLog, "auth_failed")
            \/ InLog(bLog, "query_failed")) => (bpc = "done" /\ Len(bOut) = 1)
    /\ (eAuth # <<>> /\ epc = "done") => Len(eErr) = 1

(***************************************************************************)
(* C8                                                                      *)
(***************************************************************************)

ResultFields == {"success", "message", "userInfo", "organizationId"}

\* C8 as stated: every run emits exactly one result document, and it has all
\* four fields.
C8_AlwaysFourFields ==
    bpc = "done" => (Len(bOut) = 1 /\ DOMAIN bOut[1] = ResultFields)

\* C8 amended: every run emits exactly one result document with success and
\* message; the document of a good run has all four fields, userInfo the first
\* record of the verification query or none, organizationId the instance of
\* the session; the document of a failed run has success and message only.
C8_OutputShape ==
    /\ Len(bOut) <= 1
    /\ bpc # "done" => bOut = <<>>
    /\ bpc = "done" =>
          /\ Len(bOut) = 1
          /\ {"success", "message"} \subseteq DOMAIN bOut[1]
          /\ bOut[1].success \in BOOLEAN
          /\ bOut[1].success =>
                /\ DOMAIN bOut[1] = ResultFields
                /\ bOut[1].userInfo = (IF bUser = <<>> THEN <<>> ELSE <<bUser[1]>>)
                /\ bOut[1].organizationId = bInstance
                /\ bOut[1].organizationId \in Instances
          /\ ~bOut[1].success => DOMAIN bOut[1] = {"success", "message"}

C8_Witness ==
    /\ bpc = "done"
    /\ InLog(bLog, "auth_failed")
    /\ Len(bOut) = 1
    /\ ~bOut[1].success

(***************************************************************************)
(* C9                                                                      *)
(***************************************************************************)

\* C9 as stated: for the same raw domain string the explorer and the
\* bootstrapper hand the client library the same mode and the same value.
C9_SameAuthCall ==
    (bAuth # <<>> /\ eAuth # <<>>) => eAuth[1] = bAuth[1]

\* C9 amended: the explorer applies no normalization and no mode selection: it
\* always makes the instance-URL call with the raw string unchanged.  The two
\* scripts agree in mode exactly when the normalized host contains
\* 'lightning.force.com', and in the whole call exactly when moreover the raw
\* string is already 'https://' + host; for the embedded literal both make the
\* instance-URL call and the explorer's value keeps the trailing slash.
C9_ExplorerPassesRaw ==
    /\ Len(eAuth) <= 1
    /\ \A i \in 1 .. Len(eAuth) :
          /\ DOMAIN eAuth[i] = {"instance_url"}
          /\ eAuth[i].instance_url = raw
    /\ (bAuth # <<>> /\ eAuth # <<>>) =>
          /\ (DOMAIN eAuth[1] = DOMAIN bAuth[1]) <=> Contains(domain, LightningSuffix)
          /\ (eAuth[1] = bAuth[1]) <=>
                (Contains(domain, LightningSuffix) /\ raw = HttpsPrefix \o domain)
          /\ raw = EmbeddedDomain =>
                /\ DOMAIN bAuth[1] = {"instance_url"}
                /\ eAuth[1].instance_url = bAuth[1].instance_url \o <<"/">>

C9_Witness ==
    /\ raw = EmbeddedDomain
    /\ bAuth # <<>>
    /\ eAuth # <<>>
    /\ eAuth[1] # bAuth[1]

(***************************************************************************)
(* C10                                                                     *)
(***************************************************************************)

\* C10: the verification query is issued only after authentication succeeded
\* and returns at most one row; a success result is emitted only after both
\* succeeded; after a failed authentication no query is issued; after a failure
\* of either step the only result is one failure result whose message is
\* 'Connection failed: ' and the message of the exception.
C10_StepOrdering ==
    /\ \A i \in 1 .. Len(bLog) :
          /\ bLog[i] = "query_call" => Before(bLog, "auth_ok", i)
          /\ bLog[i] = "emit_success" =>
                (Before(bLog, "auth_ok", i) /\ Before(bLog, "query_ok", i))
    /\ Len(bUser) <= UserLimit
    /\ \A i \in 1 .. Len(bOut) : bOut[i].success => InLog(bLog, "emit_success")
    /\ InLog(bLog, "auth_failed") => ~InLog(bLog, "query_call")
    /\ \A f \in {"auth_failed", "query_failed"} :
          InLog(bLog, f) =>
              /\ Len(bOut) = 1
              /\ bOut[1].success = FALSE
              /\ bOut[1].message = "Connection failed: " \o Raised(bLog, f)
              /\ ~InLog(bLog, "emit_success")

C10_Witness ==
    /\ bpc = "done"
    /\ InLog(bLog, "auth_ok")
    /\ InLog(bLog, "query_failed")
    /\ Len(bOut) = 1

====
